---- MODULE Spec2Model ----
(***************************************************************************)
(* Model lifecycle manager of the FTML Whisper server                      *)
(* (src/whisper/server.py): the module globals pipeline, model_id_str,     *)
(* loading_model, _last_inference_time and _idle_timer, the functions      *)
(* load_model_by_id, unload_model, ensure_model_loaded,                    *)
(* _schedule_idle_unload and _check_and_unload, and the HTTP handlers that *)
(* call them; and its audio path: vad_speech_timestamps, merge_segments,   *)
(* run_segment_inference and the other variants of run_inference, the cue  *)
(* filter (is_hallucination, chunks_to_vtt) and the response of the        *)
(* transcription handlers.  Each audio function has a specification of its *)
(* own (SpecVad, SpecMerge, SpecFilter, SpecPipe) over the variables arg,  *)
(* ret and step, which the lifecycle specification Spec leaves alone.      *)
(*                                                                         *)
(* Threads.  Every handler is an `async def` that calls the blocking       *)
(* functions directly, so handlers run on the single asyncio event-loop    *)
(* thread and one handler gives way to another only at an `await`; the     *)
(* only await in a handler is `await file.read()` of the two transcription *)
(* handlers.  Each threading.Timer armed by _schedule_idle_unload is a     *)
(* thread of its own and interleaves with the event-loop thread at every   *)
(* step.  A `with lock:` block is one atomic action.                       *)
(***************************************************************************)
EXTENDS Integers, FiniteSets, Sequences, TLC

\* ------------------------------------------------------------- bounds
NumReqs == 2
MaxTimers == 2
MaxTime == 3
MaxSegs == 2

\* ---------------------------------------------------------- constants
\* IDLE_TIMEOUT is read from the environment; 2 seconds is the smallest
\* value for which the 1 s tolerance of _check_and_unload is a real test.
IDLE_TIMEOUT == 2
DEFAULT_MODEL_ID == "m1"
Models == {"m1", "m2"}
Modes == {"adaptive", "vocal_sep", "raw", "none"}

Reqs == 1..NumReqs
Timers == 1..MaxTimers

\* A WhisperPipeline object: the model it holds and the load that built it
\* (0 is the startup load of lifespan).  NoHandle is Python's None.
NoHandle == [model |-> "none", by |-> 0]
Handle(m, r) == [model |-> m, by |-> r]

VARIABLES
    pipeline,             \* global pipeline
    model_id_str,         \* global model_id_str
    loading_model,        \* global loading_model
    last_inference_time,  \* global _last_inference_time
    idle_timer,           \* global _idle_timer: a timer id, 0 for None
    preprocess_mode,      \* PREPROCESS_MODE, fixed at import
    now,                  \* time.time(), in seconds
    timer,                \* the threading.Timer objects
    loop,                 \* the request whose handler holds the event loop, 0 if none
    req,                  \* per request: position and locals of its handler
    last_load,            \* history: the last load_model_by_id that returned or raised
    last_activity,        \* history: when the handle was last loaded or an inference last ended
    arg,                  \* the arguments of the function or request under study
    ret,                  \* its locals and its result
    step                  \* its position

vars == <<pipeline, model_id_str, loading_model, last_inference_time, idle_timer,
          preprocess_mode, now, timer, loop, req, last_load, last_activity,
          arg, ret, step>>

ReqInit == [pc |-> "idle", kind |-> "none", mid |-> "none", path |-> "none",
            nseg |-> 0, new_pipeline |-> NoHandle, exc |-> FALSE,
            call |-> NoHandle, result |-> "none",
            captured |-> NoHandle, during_load |-> FALSE, loads |-> 0,
            released |-> FALSE]

TimerInit == [st |-> "none", deadline |-> 0]

\* The lifecycle state in which requests are first served: lifespan has
\* loaded MODEL_ID.
Serving ==
    /\ pipeline = Handle(DEFAULT_MODEL_ID, 0)
    /\ model_id_str = DEFAULT_MODEL_ID
    /\ loading_model = FALSE
    /\ last_inference_time = 0
    /\ idle_timer = 0
    /\ preprocess_mode \in Modes
    /\ now = 0
    /\ timer = [t \in Timers |-> TimerInit]
    /\ loop = 0
    /\ req = [r \in Reqs |-> ReqInit]
    /\ last_load = [mid |-> DEFAULT_MODEL_ID, swap |-> FALSE, ok |-> TRUE]
    /\ last_activity = 0

\* No audio function is under study: arg, ret and step stay as they are.
Init ==
    /\ Serving
    /\ arg = <<>> /\ ret = <<>> /\ step = "none"

globals == <<pipeline, model_id_str, loading_model>>
idle == <<last_inference_time, idle_timer, timer>>
hist == <<last_load, last_activity>>
\* What no step of the lifecycle changes.
fixed == <<preprocess_mode, arg, ret, step>>
\* What no step of an audio function changes.
lifecycle == <<pipeline, model_id_str, loading_model, last_inference_time,
               idle_timer, preprocess_mode, now, timer, loop, req, last_load,
               last_activity>>

\* ------------------------------------------------------- positions
LoadPcs == {"load_begin", "load_swap", "load_construct", "load_commit",
            "load_except", "load_finally"}
InferPcs == {"config", "generate", "in_call"}

\* Some execution of load_model_by_id has been called and has not returned.
LoadInFlight == \E q \in Reqs : req[q].pc \in LoadPcs

\* Request r is between the start and the end of the recognizer work of
\* run_segment_inference, _run_inference_legacy or _run_inference_raw.
Inferring(r) == req[r].pc \in InferPcs
InferenceInProgress == \E r \in Reqs : Inferring(r)

\* --------------------------------------------------- the event loop
\* Mutant: handlers run on worker threads (plain `def` endpoints), so one
\* starts or resumes whatever another is doing.
CanRun_Threads(r) == TRUE

\* A handler starts, or resumes after its await, only when no other handler
\* holds the event-loop thread (every endpoint is an `async def`).
CanRun(r) == loop = 0

\* The statements of a handler between two awaits run on the event-loop
\* thread, which the handler holds until it returns, raises or awaits.
Running(r) == loop = r

IsSwap(r) == req[r].kind = "load"

\* The handler of r returns or raises: its locals are gone, the response
\* stays.
Finished(r, res) ==
    [req EXCEPT ![r] = [ReqInit EXCEPT !.pc = "done", !.kind = req[r].kind,
                                       !.result = res]]

\* A handler answers in the step that starts it: the endpoint k of a queued
\* request is known from then on.
Answered(r, k, res) ==
    [req EXCEPT ![r] = [ReqInit EXCEPT !.pc = "done", !.kind = k, !.result = res]]

\* ------------------------------------------------ requests arriving
\* A client sends a request, at any time; the server takes it up when the
\* event loop is free.  during_load records whether the server was LOADING
\* (loading_model set by a running load) when the request came in.  Request
\* ids are used in order (they are only labels).
Arrive(r) ==
    /\ req[r].pc = "idle"
    /\ \A q \in Reqs : q < r => req[q].pc # "idle"
    /\ req' = [req EXCEPT ![r].pc = "queued", ![r].during_load = loading_model]
    /\ UNCHANGED <<globals, idle, fixed, now, loop, hist>>

\* ------------------------------------------------- load_model_by_id
\* Mutant: the load does not raise the flag.
LoadBegin_FlagNotSet(r) ==
    /\ Running(r) /\ req[r].pc = "load_begin"
    /\ req' = [req EXCEPT ![r].pc = "load_swap",
                          ![r].loads = IF @ < 2 THEN @ + 1 ELSE @]
    /\ UNCHANGED <<globals, idle, fixed, now, loop, hist>>

\* loading_model = True
LoadBegin(r) ==
    /\ Running(r) /\ req[r].pc = "load_begin"
    /\ loading_model' = TRUE
    /\ req' = [req EXCEPT ![r].pc = "load_swap",
                          ![r].loads = IF @ < 2 THEN @ + 1 ELSE @]
    /\ UNCHANGED <<pipeline, model_id_str, idle, fixed, now, loop, hist>>

\* Mutant: the swap does not unload the previous model first.
LoadSwap_NoRelease(r) ==
    /\ Running(r) /\ req[r].pc = "load_swap"
    /\ req' = [req EXCEPT ![r].pc = "load_construct",
                          ![r].released = IsSwap(r) /\ pipeline # NoHandle]
    /\ UNCHANGED <<globals, idle, fixed, now, loop, hist>>

\* if is_swap and pipeline is not None: with model_lock: pipeline = None
LoadSwap(r) ==
    /\ Running(r) /\ req[r].pc = "load_swap"
    /\ IF IsSwap(r) /\ pipeline # NoHandle
         THEN /\ pipeline' = NoHandle
              /\ req' = [req EXCEPT ![r].pc = "load_construct", ![r].released = TRUE]
         ELSE /\ pipeline' = pipeline
              /\ req' = [req EXCEPT ![r].pc = "load_construct"]
    /\ UNCHANGED <<model_id_str, loading_model, idle, fixed, now, loop, hist>>

\* snapshot_download(mid); new_pipeline = WhisperPipeline(...): either may raise
LoadConstruct(r) ==
    /\ Running(r) /\ req[r].pc = "load_construct"
    /\ \/ req' = [req EXCEPT ![r].pc = "load_commit",
                             ![r].new_pipeline = Handle(req[r].mid, r)]
       \/ req' = [req EXCEPT ![r].pc = "load_except", ![r].exc = TRUE]
    /\ UNCHANGED <<globals, idle, fixed, now, loop, hist>>

\* with model_lock: pipeline = new_pipeline; model_id_str = mid
LoadCommit(r) ==
    /\ Running(r) /\ req[r].pc = "load_commit"
    /\ pipeline' = req[r].new_pipeline
    /\ model_id_str' = req[r].mid
    /\ req' = [req EXCEPT ![r].pc = "load_finally"]
    /\ last_activity' = now
    /\ UNCHANGED <<loading_model, idle, fixed, now, loop, last_load>>

\* Mutant: the except branch does not keep the requested model id.
LoadExcept_ForgetTarget(r) ==
    /\ Running(r) /\ req[r].pc = "load_except"
    /\ pipeline' = NoHandle
    /\ req' = [req EXCEPT ![r].pc = "load_finally"]
    /\ UNCHANGED <<model_id_str, loading_model, idle, fixed, now, loop, hist>>

\* except: with model_lock: pipeline = None; if is_swap: model_id_str = mid
LoadExcept(r) ==
    /\ Running(r) /\ req[r].pc = "load_except"
    /\ pipeline' = NoHandle
    /\ model_id_str' = IF IsSwap(r) THEN req[r].mid ELSE model_id_str
    /\ req' = [req EXCEPT ![r].pc = "load_finally"]
    /\ UNCHANGED <<loading_model, idle, fixed, now, loop, hist>>

\* Where a transcription goes on after ensure_model_loaded returned.
AfterEnsure(r) == IF req[r].path = "legacy" THEN "vad_legacy" ELSE "config"

\* Mutant: loading_model is cleared on the success path only (no finally).
LoadFinally_NoFinally(r) ==
    /\ Running(r) /\ req[r].pc = "load_finally"
    /\ loading_model' = req[r].exc
    /\ last_load' = [mid |-> req[r].mid, swap |-> IsSwap(r), ok |-> ~req[r].exc]
    /\ IF req[r].exc
         THEN req' = Finished(r, "500_load") /\ loop' = 0
         ELSE IF IsSwap(r)
           THEN req' = Finished(r, "ok") /\ loop' = 0
           ELSE /\ req' = [req EXCEPT ![r].pc = AfterEnsure(r),
                                      ![r].new_pipeline = NoHandle,
                                      ![r].captured = pipeline]
                /\ loop' = loop
    /\ UNCHANGED <<pipeline, model_id_str, idle, fixed, now, last_activity>>

\* finally: loading_model = False; then the return, or the raise, reaches the
\* caller: load_new_model answers 200 or 500, ensure_model_loaded returns
\* into the inference or lets the exception end the request with 500.
LoadFinally(r) ==
    /\ Running(r) /\ req[r].pc = "load_finally"
    /\ loading_model' = FALSE
    /\ last_load' = [mid |-> req[r].mid, swap |-> IsSwap(r), ok |-> ~req[r].exc]
    /\ IF req[r].exc
         THEN req' = Finished(r, "500_load") /\ loop' = 0
         ELSE IF IsSwap(r)
           THEN req' = Finished(r, "ok") /\ loop' = 0
           ELSE /\ req' = [req EXCEPT ![r].pc = AfterEnsure(r),
                                      ![r].new_pipeline = NoHandle,
                                      ![r].captured = pipeline]
                /\ loop' = loop
    /\ UNCHANGED <<pipeline, model_id_str, idle, fixed, now, last_activity>>

\* --------------------------------------------------- load_new_model
LoadNewModel(r) ==
    /\ CanRun(r) /\ req[r].pc = "queued"
    /\ \E m \in Models :
         IF loading_model
           THEN req' = Answered(r, "load", "409") /\ loop' = loop
           ELSE IF m = model_id_str /\ pipeline # NoHandle
             THEN req' = Answered(r, "load", "already_loaded") /\ loop' = loop
             ELSE /\ req' = [req EXCEPT ![r].pc = "load_begin", ![r].kind = "load",
                                        ![r].mid = m]
                  /\ loop' = r
    /\ UNCHANGED <<globals, idle, fixed, now, hist>>

\* ------------------------------------- unload_model_endpoint, unload_model
UnloadModelEndpoint(r) ==
    /\ CanRun(r) /\ req[r].pc = "queued"
    /\ IF pipeline = NoHandle
         THEN req' = Answered(r, "unload", "already_unloaded") /\ loop' = loop
         ELSE req' = [req EXCEPT ![r].pc = "unload", ![r].kind = "unload"] /\ loop' = r
    /\ UNCHANGED <<globals, idle, fixed, now, hist>>

\* with model_lock: if pipeline is None: return; pipeline = None
unload_model == IF pipeline = NoHandle THEN pipeline ELSE NoHandle

UnloadModel(r) ==
    /\ Running(r) /\ req[r].pc = "unload"
    /\ pipeline' = unload_model
    /\ req' = Finished(r, "unloaded")
    /\ loop' = 0
    /\ UNCHANGED <<model_id_str, loading_model, idle, fixed, now, hist>>

\* ---------------------------------------------- _schedule_idle_unload
\* The timer object _idle_timer refers to, after _idle_timer.cancel(): a
\* timer still waiting never runs its callback; cancel() does nothing to a
\* timer whose callback has started.
Cancelled ==
    IF idle_timer # 0 /\ timer[idle_timer].st = "waiting"
      THEN [timer EXCEPT ![idle_timer] = TimerInit]
      ELSE timer

FreeTimers(tm) == {t \in Timers : tm[t].st = "none"}
NewTimer(tm) == CHOOSE t \in FreeTimers(tm) : \A u \in FreeTimers(tm) : t <= u

\* if IDLE_TIMEOUT <= 0: return
\* with _idle_timer_lock: cancel the old timer, _last_inference_time = now,
\*   _idle_timer = Timer(IDLE_TIMEOUT, _check_and_unload); start it
schedule_idle_unload ==
    IF IDLE_TIMEOUT <= 0
      THEN UNCHANGED idle
      ELSE /\ FreeTimers(Cancelled) # {}
           /\ last_inference_time' = now
           /\ idle_timer' = NewTimer(Cancelled)
           /\ timer' = [Cancelled EXCEPT ![NewTimer(Cancelled)] =
                           [st |-> "waiting", deadline |-> now + IDLE_TIMEOUT]]

\* ------------------------------- transcribe_openai, transcribe_legacy
\* if loading_model: raise HTTPException(503); audio_bytes = await file.read()
Transcribe(r) ==
    /\ CanRun(r) /\ req[r].pc = "queued"
    /\ IF loading_model
         THEN req' = Answered(r, "transcribe", "503")
         ELSE req' = [req EXCEPT ![r].pc = "await_read", ![r].kind = "transcribe"]
    /\ UNCHANGED <<globals, idle, fixed, now, loop, hist>>

\* The await is over: decode_audio raises (400), or run_inference picks the
\* pipeline of PREPROCESS_MODE.
ReadDone(r) ==
    /\ CanRun(r) /\ req[r].pc = "await_read"
    /\ \/ req' = Finished(r, "400") /\ loop' = loop
       \/ /\ loop' = r
          /\ req' = CASE preprocess_mode = "vocal_sep" ->
                           [req EXCEPT ![r].pc = "vocal_sep"]
                      [] preprocess_mode = "adaptive" ->
                           [req EXCEPT ![r].pc = "vad", ![r].path = "seg"]
                      [] preprocess_mode = "raw" ->
                           [req EXCEPT ![r].pc = "ensure", ![r].path = "whole",
                                       ![r].nseg = 1]
                      [] OTHER ->
                           [req EXCEPT ![r].pc = "ensure", ![r].path = "legacy"]
    /\ UNCHANGED <<globals, idle, fixed, now, hist>>

\* _run_inference_vocal_sep: vocal_separate succeeds, or raises and the
\* request falls back to _run_inference_legacy.
VocalSeparate(r) ==
    /\ Running(r) /\ req[r].pc = "vocal_sep"
    /\ \/ req' = [req EXCEPT ![r].pc = "vad", ![r].path = "seg"]
       \/ req' = [req EXCEPT ![r].pc = "ensure", ![r].path = "legacy"]
    /\ UNCHANGED <<globals, idle, fixed, now, loop, hist>>

\* _run_inference_adaptive / _run_inference_vocal_sep: vad_speech_timestamps
\* finds no speech (arm the timer and return []), or merge_segments leaves
\* n segments for run_segment_inference.
Vad(r) ==
    /\ Running(r) /\ req[r].pc = "vad"
    /\ \/ req' = [req EXCEPT ![r].pc = "schedule"]
       \/ \E n \in 0..MaxSegs : req' = [req EXCEPT ![r].pc = "ensure", ![r].nseg = n]
    /\ UNCHANGED <<globals, idle, fixed, now, loop, hist>>

\* ensure_model_loaded: if pipeline is not None: return
\* mid = model_id_str or os.environ.get("MODEL_ID", DEFAULT_MODEL_ID)
\* load_model_by_id(mid)
\* Mutant: the lazy load forgets the remembered identifier.
ensure_mid_Default == DEFAULT_MODEL_ID

ensure_mid == IF model_id_str # "none" THEN model_id_str ELSE DEFAULT_MODEL_ID

EnsureModelLoaded(r) ==
    /\ Running(r) /\ req[r].pc = "ensure"
    /\ IF pipeline # NoHandle
         THEN req' = [req EXCEPT ![r].pc = AfterEnsure(r), ![r].captured = pipeline]
         ELSE req' = [req EXCEPT ![r].pc = "load_begin", ![r].mid = ensure_mid]
    /\ UNCHANGED <<globals, idle, fixed, now, loop, hist>>

\* _run_inference_legacy: vad_speech_timestamps after ensure_model_loaded;
\* no speech arms the timer and returns [], else one generate call follows.
VadLegacy(r) ==
    /\ Running(r) /\ req[r].pc = "vad_legacy"
    /\ \/ req' = [req EXCEPT ![r].pc = "schedule"]
       \/ req' = [req EXCEPT ![r].pc = "config", ![r].nseg = 1]
    /\ UNCHANGED <<globals, idle, fixed, now, loop, hist>>

\* config = pipeline.get_generation_config(): the global is read here; on
\* None the attribute access raises and the request ends with 500.
GetConfig(r) ==
    /\ Running(r) /\ req[r].pc = "config"
    /\ IF pipeline = NoHandle
         THEN /\ req' = Finished(r, "500_nohandle") /\ loop' = 0
              /\ last_activity' = now
         ELSE /\ req' = [req EXCEPT ![r].pc =
                            IF req[r].nseg = 0 THEN "schedule" ELSE "generate"]
              /\ loop' = loop
              /\ last_activity' = last_activity
    /\ UNCHANGED <<globals, idle, fixed, now, last_load>>

\* result = pipeline.generate(...): the global is read again for every call.
Generate(r) ==
    /\ Running(r) /\ req[r].pc = "generate"
    /\ IF pipeline = NoHandle
         THEN /\ req' = Finished(r, "500_nohandle") /\ loop' = 0
              /\ last_activity' = now
         ELSE /\ req' = [req EXCEPT ![r].pc = "in_call", ![r].call = pipeline]
              /\ loop' = loop
              /\ last_activity' = last_activity
    /\ UNCHANGED <<globals, idle, fixed, now, last_load>>

\* The recognizer returns, or raises and the request ends with 500.
GenerateReturn(r) ==
    /\ Running(r) /\ req[r].pc = "in_call"
    /\ \/ /\ req' = [req EXCEPT ![r].pc = IF req[r].nseg = 1 THEN "schedule"
                                                              ELSE "generate",
                                ![r].nseg = @ - 1, ![r].call = NoHandle]
          /\ loop' = loop
          /\ last_activity' = last_activity
       \/ /\ req' = Finished(r, "500_infer") /\ loop' = 0
          /\ last_activity' = now
    /\ UNCHANGED <<globals, idle, fixed, now, last_load>>

\* _schedule_idle_unload() and the return of the cue list.
ScheduleIdleUnload(r) ==
    /\ Running(r) /\ req[r].pc = "schedule"
    /\ schedule_idle_unload
    /\ req' = Finished(r, "ok")
    /\ loop' = 0
    /\ last_activity' = now
    /\ UNCHANGED <<globals, fixed, now, last_load>>

\* ----------------------------------- threading.Timer, _check_and_unload
\* The interval is over and the timer was not cancelled: the callback starts.
TimerFire(t) ==
    /\ timer[t].st = "waiting" /\ now >= timer[t].deadline
    /\ timer' = [timer EXCEPT ![t].st = "check"]
    /\ UNCHANGED <<globals, last_inference_time, idle_timer, fixed, now,
                   loop, req, hist>>

\* elapsed = time.time() - _last_inference_time; if elapsed >= IDLE_TIMEOUT - 1
CheckElapsed(t) ==
    /\ timer[t].st = "check"
    /\ timer' = [timer EXCEPT ![t].st =
                    IF now - last_inference_time >= IDLE_TIMEOUT - 1
                      THEN "unload" ELSE "clear"]
    /\ UNCHANGED <<globals, last_inference_time, idle_timer, fixed, now,
                   loop, req, hist>>

\* unload_model() called by the callback
TimerUnload(t) ==
    /\ timer[t].st = "unload"
    /\ pipeline' = unload_model
    /\ timer' = [timer EXCEPT ![t].st = "clear"]
    /\ UNCHANGED <<model_id_str, loading_model, last_inference_time, idle_timer,
                   fixed, now, loop, req, hist>>

\* with _idle_timer_lock: _idle_timer = None; the timer thread ends
TimerClear(t) ==
    /\ timer[t].st = "clear"
    /\ idle_timer' = 0
    /\ timer' = [timer EXCEPT ![t] = TimerInit]
    /\ UNCHANGED <<globals, last_inference_time, fixed, now, loop, req, hist>>

\* A second passes.
Tick ==
    /\ now < MaxTime
    /\ now' = now + 1
    /\ UNCHANGED <<globals, idle, fixed, loop, req, hist>>

Next ==
    \/ \E r \in Reqs : Arrive(r)
    \/ \E r \in Reqs : LoadNewModel(r)
    \/ \E r \in Reqs : LoadBegin(r)
    \/ \E r \in Reqs : LoadSwap(r)
    \/ \E r \in Reqs : LoadConstruct(r)
    \/ \E r \in Reqs : LoadCommit(r)
    \/ \E r \in Reqs : LoadExcept(r)
    \/ \E r \in Reqs : LoadFinally(r)
    \/ \E r \in Reqs : UnloadModelEndpoint(r)
    \/ \E r \in Reqs : UnloadModel(r)
    \/ \E r \in Reqs : Transcribe(r)
    \/ \E r \in Reqs : ReadDone(r)
    \/ \E r \in Reqs : VocalSeparate(r)
    \/ \E r \in Reqs : Vad(r)
    \/ \E r \in Reqs : EnsureModelLoaded(r)
    \/ \E r \in Reqs : VadLegacy(r)
    \/ \E r \in Reqs : GetConfig(r)
    \/ \E r \in Reqs : Generate(r)
    \/ \E r \in Reqs : GenerateReturn(r)
    \/ \E r \in Reqs : ScheduleIdleUnload(r)
    \/ \E t \in Timers : TimerFire(t)
    \/ \E t \in Timers : CheckElapsed(t)
    \/ \E t \in Timers : TimerUnload(t)
    \/ \E t \in Timers : TimerClear(t)
    \/ Tick

Spec == Init /\ [][Next]_vars

\* ================================================================ claims

\* Every WhisperPipeline object some reference still holds: the global, the
\* new_pipeline local of a running load, the receiver of a running call.
AliveHandles ==
    ({pipeline} \cup {req[r].new_pipeline : r \in Reqs}
                \cup {req[r].call : r \in Reqs}) \ {NoHandle}

\* No request is queued, suspended or running.
Quiet == \A r \in Reqs : req[r].pc \in {"idle", "done"}

TimerLive == \E t \in Timers : timer[t].st # "none"

\* C1 (as claimed): a load request that comes in while a load is running is
\* rejected with 409 when the server takes it up; it is neither queued
\* behind the running load nor starts a load of its own.
C1_LoadRejectedWhileLoading ==
    [][\A r \in Reqs :
         (req[r].pc = "queued" /\ req[r].during_load /\ req'[r].kind = "load")
           => req'[r].result = "409"]_vars

\* C2: at most one recognizer handle is alive in every reachable state, and
\* when a swap constructs the new pipeline the global handle has been
\* cleared.
C2_AtMostOneHandle ==
    /\ Cardinality(AliveHandles) <= 1
    /\ \A r \in Reqs :
         (IsSwap(r) /\ req[r].pc \in {"load_construct", "load_commit"})
           => pipeline = NoHandle

\* C2 witness: a swap released the loaded model and has constructed the new
\* pipeline, not yet assigned to the global.
C2_SwapConstructed ==
    \E r \in Reqs : /\ IsSwap(r) /\ req[r].released
                    /\ req[r].pc = "load_commit"
                    /\ req[r].new_pipeline # NoHandle

\* C3 (as claimed): the idle timer's callback never clears the handle while
\* a request is between the start and the end of its recognizer work.
C3_NoIdleReleaseDuringInference ==
    [][((\E t \in Timers : timer[t].st = "unload" /\ timer'[t].st = "clear")
          /\ pipeline # NoHandle /\ pipeline' = NoHandle)
         => ~InferenceInProgress]_vars

\* C4 (as claimed): every recognizer invocation of a request (the
\* configuration read and each generate call) is made on the handle the
\* request held when ensure_model_loaded returned.
C4_InferenceUsesCapturedHandle ==
    \A r \in Reqs :
      req[r].pc \in {"config", "generate"} => pipeline = req[r].captured

\* C5 (as claimed): with IDLE_TIMEOUT > 0, a handle that has been loaded for
\* longer than the timeout with no inference is on its way to UNLOADED: an
\* idle timer is pending or its callback is running (with no timer and no
\* request, no step of the program ever clears the handle).
C5_IdleReleaseArmed ==
    (/\ IDLE_TIMEOUT > 0
     /\ pipeline # NoHandle
     /\ Quiet
     /\ now - last_activity > IDLE_TIMEOUT) => TimerLive

\* C6 (as claimed): a lazy reload loads the remembered model id, and no
\* recognizer call is ever made on an absent handle.
C6_NoCallOnAbsentHandle ==
    /\ \A r \in Reqs :
         (req[r].pc \in LoadPcs /\ ~IsSwap(r)) => req[r].mid = model_id_str
    /\ \A r \in Reqs : req[r].result # "500_nohandle"

\* C7: when a load raises, load_model_by_id is left with the handle absent
\* and loading_model cleared, the error reaches the requester (500) in that
\* same step, and the request made that one load attempt only.
C7_LoadFailure ==
    [][\A r \in Reqs :
         (req[r].pc = "load_finally" /\ req[r].exc /\ req'[r] # req[r])
           => /\ pipeline' = NoHandle
              /\ loading_model' = FALSE
              /\ req'[r].pc = "done"
              /\ req'[r].result = "500_load"
              /\ req[r].loads = 1]_vars

\* C7 witness: a load has failed and its requester has the error; the state
\* is UNLOADED.
C7_LoadFailed ==
    \E r \in Reqs : /\ req[r].pc = "done" /\ req[r].result = "500_load"
                    /\ pipeline = NoHandle /\ ~loading_model

\* C8: after a failed explicit swap to M the remembered model id is M, and
\* the load a lazy reactivation then starts is a load of M.
C8_FailedSwapRemembered ==
    (last_load.swap /\ ~last_load.ok) =>
      /\ ~LoadInFlight => model_id_str = last_load.mid
      /\ \A r \in Reqs :
           (req[r].pc \in LoadPcs /\ ~IsSwap(r)) => req[r].mid = last_load.mid

\* C8 witness: a swap to m2 failed while m1 was the model loaded at startup,
\* and a transcription is now reloading lazily.
C8_LazyReloadAfterFailedSwap ==
    \E r \in Reqs : /\ req[r].kind = "transcribe"
                    /\ req[r].pc = "load_construct"
                    /\ last_load = [mid |-> "m2", swap |-> TRUE, ok |-> FALSE]
                    /\ DEFAULT_MODEL_ID # "m2"

C10_PreconditionUnreachable ==
    \A r \in Reqs :
      (~IsSwap(r) /\ req[r].pc \in {"load_construct", "load_except"})
        => pipeline = NoHandle

\* ============================================== audio functions: merger
\* ------------------------------------------------------------- bounds
MaxPos == 6
MaxIv == 3
MaxGap == 2
MaxDur == 3
MaxMin == 2

\* A speech interval {'start': s, 'end': e}, in samples.
Seg(s, e) == [start |-> s, end |-> e]

Min(a, b) == IF a <= b THEN a ELSE b
Max(a, b) == IF a >= b THEN a ELSE b

\* Samples covered by the intervals of a list: start inclusive, end exclusive.
Covered(ivs) == UNION {ivs[i].start .. (ivs[i].end - 1) : i \in DOMAIN ivs}

\* The lists merge_segments is called with: sorted by start, no two
\* intervals overlapping (one may start where the one before ends), and
\* end > start in each, as in every interval of vad_speech_timestamps.
IsIntervalList(ivs) ==
    /\ \A i \in DOMAIN ivs : ivs[i].start < ivs[i].end
    /\ \A i \in DOMAIN ivs : i > 1 => ivs[i - 1].end <= ivs[i].start

Intervals == {Seg(s, e) : s \in 0..MaxPos, e \in 1..MaxPos}
IntervalLists ==
    UNION {{ivs \in [1..n -> Intervals] : IsIntervalList(ivs)} : n \in 0..MaxIv}

\* Mutant: two intervals are joined whatever the silence between them.
CanMerge_AnyGap(prev, seg, gap_samples, max_samples) ==
    seg.end - prev.start <= max_samples

\* gap = seg['start'] - prev['end']; combined_dur = seg['end'] - prev['start']
\* if gap <= gap_samples and combined_dur <= max_samples
CanMerge(prev, seg, gap_samples, max_samples) ==
    /\ seg.start - prev.end <= gap_samples
    /\ seg.end - prev.start <= max_samples

\* The first loop: each interval extends the last merged one or starts a
\* new one.
RECURSIVE MergeClose(_, _, _, _)
MergeClose(merged, rest, gap_samples, max_samples) ==
    IF rest = <<>> THEN merged
    ELSE LET seg == Head(rest)
             n == Len(merged)
         IN  IF CanMerge(merged[n], seg, gap_samples, max_samples)
               THEN MergeClose([merged EXCEPT ![n].end = seg.end], Tail(rest),
                               gap_samples, max_samples)
               ELSE MergeClose(Append(merged, seg), Tail(rest),
                               gap_samples, max_samples)

\* Mutant: a piece is max_samples long even at the end of its interval.
ChunkEnd_NoClamp(pos, seg_end, max_samples) == pos + max_samples

\* chunk_end = min(pos + max_samples, seg['end'])
ChunkEnd(pos, seg_end, max_samples) == Min(pos + max_samples, seg_end)

\* Mutant: short intervals and short pieces are kept.
LongEnough_KeepAll(dur, min_samples) == TRUE

\* if dur >= min_samples / if (chunk_end - pos) >= min_samples
LongEnough(dur, min_samples) == dur >= min_samples

\* Mutant: the loop stops when less than a whole piece is left.
RECURSIVE SplitLong_WholePieces(_, _, _, _)
SplitLong_WholePieces(pos, seg_end, max_samples, min_samples) ==
    IF pos + max_samples <= seg_end
      THEN (IF LongEnough(max_samples, min_samples)
              THEN <<Seg(pos, pos + max_samples)>> ELSE <<>>)
           \o SplitLong_WholePieces(pos + max_samples, seg_end, max_samples,
                                     min_samples)
      ELSE <<>>

\* while pos < seg['end']: the pieces of one over-long interval.
RECURSIVE SplitLong(_, _, _, _)
SplitLong(pos, seg_end, max_samples, min_samples) ==
    IF pos < seg_end
      THEN LET chunk_end == ChunkEnd(pos, seg_end, max_samples)
           IN  (IF LongEnough(chunk_end - pos, min_samples)
                  THEN <<Seg(pos, chunk_end)>> ELSE <<>>)
               \o SplitLong(chunk_end, seg_end, max_samples, min_samples)
      ELSE <<>>

\* The second loop: split what is longer than max_samples, drop what is
\* shorter than min_samples.
RECURSIVE SplitAndDrop(_, _, _)
SplitAndDrop(merged, max_samples, min_samples) ==
    IF merged = <<>> THEN <<>>
    ELSE LET seg == Head(merged)
             dur == seg.end - seg.start
         IN  (IF dur <= max_samples
                THEN (IF LongEnough(dur, min_samples) THEN <<seg>> ELSE <<>>)
                ELSE SplitLong(seg.start, seg.end, max_samples, min_samples))
             \o SplitAndDrop(Tail(merged), max_samples, min_samples)

\* merge_segments, with gap_samples = int(sr * gap_threshold_s),
\* max_samples = int(sr * max_duration_s), min_samples = int(sr * min_duration_s)
merge_segments(segments, gap_samples, max_samples, min_samples) ==
    IF segments = <<>> THEN <<>>
    ELSE SplitAndDrop(MergeClose(<<Head(segments)>>, Tail(segments),
                                 gap_samples, max_samples),
                      max_samples, min_samples)

\* The calls of merge_segments: a list the segmenter can return and the three
\* lengths in samples; max_samples is at least one sample.
MergeArgs ==
    [segments : IntervalLists, gap_samples : 0..MaxGap,
     max_samples : 1..MaxDur, min_samples : 0..MaxMin]

InitMerge ==
    /\ Serving /\ preprocess_mode = "adaptive"
    /\ arg \in MergeArgs
    /\ ret = <<>>
    /\ step = "merge"

MergeCall ==
    /\ step = "merge"
    /\ ret' = merge_segments(arg.segments, arg.gap_samples, arg.max_samples,
                             arg.min_samples)
    /\ step' = "merged"
    /\ UNCHANGED <<lifecycle, arg>>

NextMerge == MergeCall

SpecMerge == InitMerge /\ [][NextMerge]_vars

\* ------------------------------------------------------ claims: merger
\* Some interval of the list is longer than n samples / shorter than n.
SomeLonger(ivs, n) == \E i \in DOMAIN ivs : ivs[i].end - ivs[i].start > n
SomeShorter(ivs, n) == \E i \in DOMAIN ivs : ivs[i].end - ivs[i].start < n

\* C11: the output of merge_segments is sorted by start and no two of its
\* intervals overlap, for every sorted, non-overlapping input and every
\* gap, maximum and minimum length.
C11_OutputSortedDisjoint ==
    step = "merged" =>
      \A i, j \in DOMAIN ret :
        i < j => /\ ret[i].start <= ret[j].start
                 /\ ret[i].end <= ret[j].start

\* C11 witness: an over-long interval was split and the output has pieces of
\* it next to another interval.
C11_SplitAndMore ==
    /\ step = "merged"
    /\ SomeLonger(arg.segments, arg.max_samples)
    /\ Len(arg.segments) >= 2
    /\ Len(ret) >= 3

\* C12: every output interval of merge_segments has a length between
\* min_samples and max_samples, also when the input holds intervals longer
\* than the maximum or shorter than the minimum.
C12_OutputDurationBounded ==
    step = "merged" =>
      \A i \in DOMAIN ret :
        /\ arg.min_samples <= ret[i].end - ret[i].start
        /\ ret[i].end - ret[i].start <= arg.max_samples

\* C12 witness: the input had an interval over the maximum and one under the
\* minimum, and something was returned.
C12_LongAndShortInput ==
    /\ step = "merged"
    /\ SomeLonger(arg.segments, arg.max_samples)
    /\ SomeShorter(arg.segments, arg.min_samples)
    /\ ret # <<>>

\* C13 as stated: the samples covered by the output of merge_segments are a
\* subset of the samples covered by its input.
C13_CoverageWithinInput ==
    step = "merged" => Covered(ret) \subseteq Covered(arg.segments)

\* The samples of the silences of at most gap_samples between two
\* consecutive input intervals.
BridgeableGaps(ivs, gap_samples) ==
    UNION {IF ivs[i + 1].start - ivs[i].end <= gap_samples
             THEN ivs[i].end .. (ivs[i + 1].start - 1) ELSE {}
           : i \in 1..(Len(ivs) - 1)}

\* C13 amended: every sample covered by the output of merge_segments is
\* covered by an input interval or lies in a silence of at most gap_samples
\* between two consecutive input intervals.
C13_CoverageWithinInputAndGaps ==
    step = "merged" =>
      Covered(ret) \subseteq
        (Covered(arg.segments) \cup BridgeableGaps(arg.segments, arg.gap_samples))

\* C13 witness: two intervals were merged over a silence, which the output
\* now covers.
C13_GapCovered ==
    /\ step = "merged"
    /\ \E x \in Covered(ret) : x \notin Covered(arg.segments)

\* C14: two adjacent output intervals of merge_segments that are at most
\* gap_samples apart would together be longer than max_samples, also after
\* the split of over-long intervals and the drop of short ones.
C14_NoMergeableNeighbours ==
    step = "merged" =>
      \A i \in DOMAIN ret :
        (i > 1 /\ ret[i].start - ret[i - 1].end <= arg.gap_samples)
          => ret[i].end - ret[i - 1].start > arg.max_samples

\* ========================================== audio functions: segmenter
\* ------------------------------------------------------------- bounds
MaxAudio == 11
MaxMinSpeech == 4
MaxMinSilence == 4

\* chunk_size = int(sr * 0.032): 512 samples at 16 kHz, 2 samples at the
\* scale of this model, so that an audio length need not be a whole number
\* of frames.
chunk_size == 2

\* The probabilities vad_model.process can answer, in tenths, and the
\* thresholds they are compared with: below and at the threshold.
Probs == {4, 5}
Thresholds == {5}

\* len(range(0, len(audio) - chunk_size + 1, chunk_size))
FrameCount(n) == n \div chunk_size

\* The locals of vad_speech_timestamps before the loop.
VadStart == [segments |-> <<>>, is_speech |-> FALSE, speech_start |-> 0,
             silence_counter |-> 0]

\* Mutant: the interval is closed one frame before the first silent frame.
SilenceEnd_FrameEarly(i, silence_counter) == i - silence_counter * chunk_size

\* speech_end = i - (silence_counter - 1) * chunk_size
SilenceEnd(i, silence_counter) == i - (silence_counter - 1) * chunk_size

\* Mutant: every candidate interval is appended, whatever its length.
AppendIfSpeech_Always(segments, speech_start, speech_end, min_speech_samples) ==
    Append(segments, Seg(speech_start, speech_end))

\* if (speech_end - speech_start) >= min_speech_samples: segments.append(...)
AppendIfSpeech(segments, speech_start, speech_end, min_speech_samples) ==
    IF speech_end - speech_start >= min_speech_samples
      THEN Append(segments, Seg(speech_start, speech_end))
      ELSE segments

\* Mutant: a speech frame does not reset the count of silent frames.
VadFrame_CounterKept(st, i, prob, a) ==
    IF prob >= a.threshold
      THEN [st EXCEPT !.speech_start = IF st.is_speech THEN @ ELSE i,
                      !.is_speech = TRUE,
                      !.silence_counter = @]
      ELSE IF ~st.is_speech THEN st
      ELSE LET silence_counter == st.silence_counter + 1
           IN  IF silence_counter * chunk_size >= a.min_silence_samples
                 THEN [st EXCEPT
                         !.segments = AppendIfSpeech(st.segments, st.speech_start,
                                          SilenceEnd(i, silence_counter),
                                          a.min_speech_samples),
                         !.is_speech = FALSE,
                         !.silence_counter = 0]
                 ELSE [st EXCEPT !.silence_counter = silence_counter]

\* The body of the loop for the frame that starts at sample i.
VadFrame(st, i, prob, a) ==
    IF prob >= a.threshold
      THEN [st EXCEPT !.speech_start = IF st.is_speech THEN @ ELSE i,
                      !.is_speech = TRUE,
                      !.silence_counter = 0]
      ELSE IF ~st.is_speech THEN st
      ELSE LET silence_counter == st.silence_counter + 1
           IN  IF silence_counter * chunk_size >= a.min_silence_samples
                 THEN [st EXCEPT
                         !.segments = AppendIfSpeech(st.segments, st.speech_start,
                                          SilenceEnd(i, silence_counter),
                                          a.min_speech_samples),
                         !.is_speech = FALSE,
                         !.silence_counter = 0]
                 ELSE [st EXCEPT !.silence_counter = silence_counter]

\* The loop over the frames k..FrameCount(len(audio)).
RECURSIVE VadLoop(_, _, _)
VadLoop(st, k, a) ==
    IF k > FrameCount(a.len) THEN st
    ELSE VadLoop(VadFrame(st, (k - 1) * chunk_size, a.probs[k], a), k + 1, a)

\* Mutant: the open interval is closed at the end of the signal.
VadClose_AtSignalEnd(st, a) ==
    IF st.is_speech
      THEN AppendIfSpeech(st.segments, st.speech_start, a.len,
                          a.min_speech_samples)
      ELSE st.segments

\* Close last segment: speech_end = len(audio) - silence_counter * chunk_size
VadClose(st, a) ==
    IF st.is_speech
      THEN AppendIfSpeech(st.segments, st.speech_start,
                          a.len - st.silence_counter * chunk_size,
                          a.min_speech_samples)
      ELSE st.segments

\* vad_speech_timestamps, with the answers of the VAD model as an argument,
\* min_speech_samples = int(sr * min_speech_ms / 1000) and
\* min_silence_samples = int(sr * min_silence_ms / 1000)
vad_speech_timestamps(a) == VadClose(VadLoop(VadStart, 1, a), a)

\* The calls of vad_speech_timestamps: an audio length, one probability for
\* each of its frames, a threshold and the two lengths in samples.
VadArgs ==
    UNION {[len : {n}, probs : [1..FrameCount(n) -> Probs],
            threshold : Thresholds,
            min_speech_samples : 0..MaxMinSpeech,
            min_silence_samples : 0..MaxMinSilence] : n \in 0..MaxAudio}

InitVad ==
    /\ Serving /\ preprocess_mode = "adaptive"
    /\ arg \in VadArgs
    /\ ret = <<>>
    /\ step = "vad"

VadCall ==
    /\ step = "vad"
    /\ ret' = vad_speech_timestamps(arg)
    /\ step' = "vad_done"
    /\ UNCHANGED <<lifecycle, arg>>

NextVad == VadCall

SpecVad == InitVad /\ [][NextVad]_vars

\* --------------------------------------------------- claims: segmenter
\* C15: the intervals returned by vad_speech_timestamps are sorted by start,
\* pairwise non-overlapping, and each has end > start, for every audio
\* length and every sequence of frame probabilities.
C15_VadIntervalsOrdered ==
    step = "vad_done" =>
      /\ \A i \in DOMAIN ret : ret[i].start < ret[i].end
      /\ \A i, j \in DOMAIN ret :
           i < j => /\ ret[i].start <= ret[j].start
                    /\ ret[i].end <= ret[j].start

\* C15 witness: two intervals were returned, the second closed at the end of
\* the signal after a silent frame.
C15_TwoIntervals ==
    /\ step = "vad_done"
    /\ Len(ret) = 2
    /\ arg.probs[FrameCount(arg.len)] < arg.threshold
    /\ ret[2].end > FrameCount(arg.len) * chunk_size - chunk_size

\* ====================================== cue texts and the cue filter
\* ------------------------------------------------------------- bounds
MaxCues == 4

\* A text is the sequence of its characters; a character outside ASCII is
\* written by its code point ("u2026" is the ellipsis).  Times are in tenths
\* of a second.
WhiteSpace == {" "}
\* The characters of these texts that \w does not match.
NonWord == {" ", ".", ",", "!", "?", "u2026", "u3001"}
IsWord(c) == c \notin NonWord

UpperCase == <<"A", "B", "C", "D", "E", "F", "G", "H", "I", "J", "K", "L", "M",
               "N", "O", "P", "Q", "R", "S", "T", "U", "V", "W", "X", "Y", "Z">>
LowerCase == <<"a", "b", "c", "d", "e", "f", "g", "h", "i", "j", "k", "l", "m",
               "n", "o", "p", "q", "r", "s", "t", "u", "v", "w", "x", "y", "z">>
LowerChar(c) ==
    IF \E i \in DOMAIN UpperCase : UpperCase[i] = c
      THEN LowerCase[CHOOSE i \in DOMAIN UpperCase : UpperCase[i] = c]
      ELSE c
\* str.lower()
Lower(t) == [i \in DOMAIN t |-> LowerChar(t[i])]

\* str.strip()
RECURSIVE LStrip(_)
LStrip(t) == IF t # <<>> /\ Head(t) \in WhiteSpace THEN LStrip(Tail(t)) ELSE t
RECURSIVE RStrip(_)
RStrip(t) ==
    IF t # <<>> /\ t[Len(t)] \in WhiteSpace
      THEN RStrip(SubSeq(t, 1, Len(t) - 1)) ELSE t
Strip(t) == RStrip(LStrip(t))

\* _HALLUCINATION_EXACT
HALLUCINATION_EXACT ==
    {<<"u3054", "u8996", "u8074", "u3042", "u308A", "u304C", "u3068",
       "u3046", "u3054", "u3056", "u3044", "u307E", "u3057", "u305F">>,
     <<"u3054", "u8996", "u8074", "u3042", "u308A", "u304C", "u3068",
       "u3046", "u3054", "u3056", "u3044", "u307E", "u3059">>,
     <<"u304A", "u75B2", "u308C", "u69D8", "u3067", "u3057", "u305F">>,
     <<"u304A", "u3084", "u3059", "u307F", "u306A", "u3055", "u3044">>,
     <<"u3067", "u306F", "u3001", "u307E", "u305F">>,
     <<"u305D", "u308C", "u3067", "u306F", "u3001", "u307E", "u305F">>,
     <<"t", "h", "a", "n", "k", " ", "y", "o", "u", " ", "f", "o", "r",
       " ", "w", "a", "t", "c", "h", "i", "n", "g">>,
     <<"t", "h", "a", "n", "k", "s", " ", "f", "o", "r", " ", "w", "a",
       "t", "c", "h", "i", "n", "g">>,
     <<"p", "l", "e", "a", "s", "e", " ", "s", "u", "b", "s", "c", "r",
       "i", "b", "e">>,
     <<"l", "i", "k", "e", " ", "a", "n", "d", " ", "s", "u", "b", "s",
       "c", "r", "i", "b", "e">>,
     <<"s", "e", "e", " ", "y", "o", "u", " ", "n", "e", "x", "t", " ",
       "t", "i", "m", "e">>,
     <<"uC2DC", "uCCAD", "uD574", " ", "uC8FC", "uC154", "uC11C", " ",
       "uAC10", "uC0AC", "uD569", "uB2C8", "uB2E4">>,
     <<"uAD6C", "uB3C5", "uACFC", " ", "uC88B", "uC544", "uC694", " ",
       "uBD80", "uD0C1", "uB4DC", "uB9BD", "uB2C8", "uB2E4">>,
     <<"u8C22", "u8C22", "u89C2", "u770B">>,
     <<"u611F", "u8C22", "u6536", "u770B">>,
     <<".", ".", ".">>,
     <<"u2026">>}

\* r'^by\s+\w\.?$' with re.IGNORECASE
MatchesByInitial(t) ==
    /\ Len(t) >= 4
    /\ LowerChar(t[1]) = "b" /\ LowerChar(t[2]) = "y"
    /\ \E n \in 3..(Len(t) - 1) :
         /\ \A i \in 3..n : t[i] \in WhiteSpace
         /\ IsWord(t[n + 1])
         /\ \/ Len(t) = n + 1
            \/ Len(t) = n + 2 /\ t[n + 2] = "."

\* r'^[\.\u2026\s]+$'
MatchesDotsOnly(t) ==
    Len(t) >= 1 /\ \A i \in DOMAIN t : t[i] \in {".", "u2026"} \cup WhiteSpace

\* r'^[\s\W]+$'
MatchesPunctuationOnly(t) ==
    Len(t) >= 1 /\ \A i \in DOMAIN t : t[i] \in WhiteSpace \/ ~IsWord(t[i])

\* r'^\w{1,2}$'
MatchesShortWord(t) ==
    Len(t) \in 1..2 /\ \A i \in DOMAIN t : IsWord(t[i])

\* for pattern in _HALLUCINATION_PATTERNS: if pattern.match(t)
MatchesPattern(t) ==
    \/ MatchesByInitial(t)
    \/ MatchesDotsOnly(t)
    \/ MatchesPunctuationOnly(t)
    \/ MatchesShortWord(t)

\* The durations of the filter, in tenths of a second: 0.3 s, 1.0 s, 29.0 s.
TOO_SHORT == 3
SHORT == 10
WINDOW == 290

\* is_hallucination(text, duration)
is_hallucination_CaseSensitive(text, duration) ==
    LET t == Strip(text)
    IN  \/ text = <<>>
        \/ t = <<>>
        \/ t \in HALLUCINATION_EXACT
        \/ MatchesPattern(t)
        \/ Len(t) <= 4 /\ duration < SHORT
        \/ duration < TOO_SHORT

is_hallucination(text, duration) ==
    LET t == Strip(text)
    IN  \/ text = <<>>
        \/ t = <<>>
        \/ t \in HALLUCINATION_EXACT
        \/ Lower(t) \in HALLUCINATION_EXACT
        \/ MatchesPattern(t)
        \/ Len(t) <= 4 /\ duration < SHORT
        \/ duration < TOO_SHORT

\* A cue of the recognizer (chunk.text, chunk.start_ts, chunk.end_ts).
Cue(text, start_ts, end_ts) ==
    [text |-> text, start_ts |-> start_ts, end_ts |-> end_ts]

\* The locals of chunks_to_vtt before the loop; kept is the list of the cues
\* that are written to the output.
VttStart == [kept |-> <<>>, prev_text |-> <<>>, repeat_count |-> 0]

\* The repetition rule of chunks_to_vtt: a cue whose text equals the text
\* before it is skipped once the count of repeats has reached two.
TooManyRepeats_FromFourth(repeat_count) == repeat_count >= 3

TooManyRepeats(repeat_count) == repeat_count >= 2

\* The body of the loop of chunks_to_vtt for one chunk.
VttChunk(st, chunk) ==
    LET text == Strip(chunk.text)
        duration == chunk.end_ts - chunk.start_ts
        repeat_count == IF text = st.prev_text THEN st.repeat_count + 1 ELSE 0
    IN  IF text = <<>> THEN st
        ELSE IF duration >= WINDOW THEN st
        ELSE IF text = st.prev_text /\ TooManyRepeats(repeat_count)
               THEN [st EXCEPT !.repeat_count = repeat_count]
        ELSE IF is_hallucination(text, duration)
               THEN [st EXCEPT !.repeat_count = repeat_count, !.prev_text = text]
        ELSE [kept |-> Append(st.kept, Cue(text, chunk.start_ts, chunk.end_ts)),
              prev_text |-> text, repeat_count |-> repeat_count]

RECURSIVE VttLoop(_, _)
VttLoop(st, chunks) ==
    IF chunks = <<>> THEN st
    ELSE VttLoop(VttChunk(st, Head(chunks)), Tail(chunks))

\* The cues chunks_to_vtt writes: those the filter lets through.
FilteredCues(chunks) == VttLoop(VttStart, chunks).kept

\* format_ts: HH:MM:SS.mmm as <<hours, minutes, seconds, milliseconds>>
format_ts(t) ==
    <<t \div 36000, (t % 36000) \div 600, (t % 600) \div 10, (t % 10) * 100>>

\* chunks_to_vtt: the numbered cues that follow the WEBVTT header.
chunks_to_vtt(chunks) ==
    LET kept == FilteredCues(chunks)
    IN  [i \in DOMAIN kept |->
           [idx |-> i, start |-> format_ts(kept[i].start_ts),
            end |-> format_ts(kept[i].end_ts), text |-> kept[i].text]]

\* Texts and durations a recognizer may answer: a sentence, a short word
\* with a full stop, a two-letter word, a listed phrase in another case and
\* with a leading space; 0.2 s, 2 s and 30 s.  A listed phrase of another
\* script (the first entry of the list) comes with 2 s only.
Hello == <<"H", "e", "l", "l", "o">>
YesStop == <<"Y", "e", "s", ".">>
Me == <<"m", "e">>
ThanksForWatching ==
    <<" ", "T", "h", "a", "n", "k", "s", " ", "f", "o", "r", " ",
      "w", "a", "t", "c", "h", "i", "n", "g">>
ThanksForViewing ==
    <<"u3054", "u8996", "u8074", "u3042", "u308A", "u304C", "u3068",
      "u3046", "u3054", "u3056", "u3044", "u307E", "u3057", "u305F">>
FilterTexts == {Hello, YesStop, Me, ThanksForWatching}
FilterSpans == {<<0, 2>>, <<0, 20>>, <<0, 300>>}
FilterCueSet ==
    {Cue(t, s[1], s[2]) : t \in FilterTexts, s \in FilterSpans}
    \cup {Cue(ThanksForViewing, 0, 20)}
CueLists == UNION {[1..n -> FilterCueSet] : n \in 0..MaxCues}

InitFilter ==
    /\ Serving /\ preprocess_mode = "adaptive"
    /\ arg \in CueLists
    /\ ret = <<>>
    /\ step = "filter"

\* The filter of chunks_to_vtt applied to the cues of the recognizer.
FilterOnce ==
    /\ step = "filter"
    /\ ret' = [first |-> FilteredCues(arg), vtt |-> chunks_to_vtt(arg)]
    /\ step' = "filtered"
    /\ UNCHANGED <<lifecycle, arg>>

\* The filter applied again to the cues that came through.
FilterAgain ==
    /\ step = "filtered"
    /\ ret' = [first |-> ret.first, vtt |-> ret.vtt,
               second |-> FilteredCues(ret.first)]
    /\ step' = "refiltered"
    /\ UNCHANGED <<lifecycle, arg>>

NextFilter == FilterOnce \/ FilterAgain

SpecFilter == InitFilter /\ [][NextFilter]_vars

\* ------------------------------------------------------ claims: filter
\* C20: the hallucination filter of chunks_to_vtt (phrase, pattern, duration
\* and repetition rules) applied to the cues that survived a first
\* application removes nothing further.
C20_FilterIdempotent ==
    step = "refiltered" => ret.second = ret.first

\* ---------------------------------------------- claims: empty requests
\* Request r runs run_segment_inference with an empty interval list: the
\* merger dropped every interval of the segmenter.
NothingToRecognize(r) ==
    /\ req[r].path = "seg" /\ req[r].nseg = 0
    /\ req[r].pc \in {"ensure", "config"} \cup LoadPcs

\* C17: a request of the segmenter/merger path that is left with zero
\* intervals ends as a normal result with no cues, not as an error.
C17_EmptyIsNotAnError ==
    [][\A r \in Reqs :
         (NothingToRecognize(r) /\ req'[r].pc = "done")
           => req'[r].result = "ok"]_vars

\* ================================ the audio path of one transcription
\* run_inference and the response of the handler for one decoded audio,
\* with the recognizer loaded.  The signal processing (filters, vocal
\* separation), the VAD model and the recognizer are not computed: a filter
\* answers another signal of the same length, the segmenter any interval
\* list it can return, the recognizer any of a few cue lists or an error.
\* ------------------------------------------------------------- bounds
MaxPipeLen == 6

\* One sample is a tenth of a second at the scale of this model.
sr == 10
\* pad_samples = int(sr * 0.2)
pad_samples == (sr * 2) \div 10
\* samples / sr, in tenths of a second
Ticks(samples) == (samples * 10) \div sr

Formats == {"vtt", "verbose_json", "json"}

\* The decoded audio: sample i has the value i, so that every slice of it
\* is told from every other and from every processed signal.
PipeAudio(n) == [i \in 1..n |-> i]
PipeAudios == {PipeAudio(n) : n \in 1..MaxPipeLen}

\* apply_highpass: a new array, sosfilt(sos, audio).astype(np.float32)
apply_highpass(audio) == [i \in DOMAIN audio |-> 0 - audio[i]]
\* apply_light_denoise: the array itself when no quiet frame is found, or a
\* new array
apply_light_denoise(audio) == {audio, [i \in DOMAIN audio |-> audio[i] - 100]}
\* vocal_separate: a new array
vocal_separate(audio) == [i \in DOMAIN audio |-> audio[i] + 100]
\* vad_audio = np.zeros_like(audio); vad_audio[start:end] = audio[start:end]
Silenced(audio, segments) ==
    [i \in DOMAIN audio |-> IF (i - 1) \in Covered(segments) THEN audio[i] ELSE 0]

\* What vad_speech_timestamps can return for a signal of n samples.
SegmenterLists(n) ==
    {ivs \in IntervalLists : \A i \in DOMAIN ivs : ivs[i].end <= n}

\* What pipeline.generate can return: result.chunks and str(result).
PipeTexts == {Hello, ThanksForWatching}
PipeSpans == {<<0, 2>>, <<0, 4>>, <<0, 300>>, <<1, 300>>}
PipeCueSet == {Cue(t, s[1], s[2]) : t \in PipeTexts, s \in PipeSpans}
\* No cue, one cue, or two cues of which the second starts later.
RecognizerChunkLists ==
    {<<>>} \cup {<<c>> : c \in PipeCueSet}
    \cup {cs \in [1..2 -> PipeCueSet] : cs[1].start_ts < cs[2].start_ts}

RECURSIVE JoinTexts(_, _)
JoinTexts(texts, sep) ==
    IF texts = <<>> THEN <<>>
    ELSE IF Len(texts) = 1 THEN texts[1]
    ELSE texts[1] \o sep \o JoinTexts(Tail(texts), sep)

TextsOf(chunks) == [i \in DOMAIN chunks |-> chunks[i].text]

RecognizerResults ==
    {[chunks |-> cs, str |-> JoinTexts(TextsOf(cs), <<>>)] :
        cs \in RecognizerChunkLists \ {<<>>}}
    \cup {[chunks |-> <<>>, str |-> t] : t \in {<<>>, ThanksForWatching}}

NoResult == [chunks |-> <<>>, full_text |-> <<>>]
NoResponse == [status |-> 0, format |-> "none", cues |-> <<>>, text |-> <<>>]

PipeLocals(audio) ==
    [audio |-> audio, vad_audio |-> <<>>, rec_audio |-> <<>>,
     speech_segments |-> <<>>, merged |-> <<>>, i |-> 0, all_chunks |-> <<>>,
     calls |-> <<>>, raised |-> FALSE, result |-> NoResult,
     response |-> NoResponse]

InitPipe ==
    /\ Serving
    /\ arg \in [audio : PipeAudios]
    /\ ret = PipeLocals(arg.audio)
    /\ step = "run_inference"

\* Mutant: the recognizer is given the signal the segmenter was given.
AdaptiveRecognizerAudio_Filtered(audio, vad_audio) == vad_audio

\* _run_inference_adaptive: run_segment_inference(audio, merged, language)
AdaptiveRecognizerAudio(audio, vad_audio) == audio

\* Mutant: the handler answers with what was recognized before the error.
InferenceFailed_Partial(all_chunks) ==
    [status |-> 200, format |-> "verbose_json",
     cues |-> [i \in DOMAIN all_chunks |->
                 [start |-> all_chunks[i].start_ts, end |-> all_chunks[i].end_ts,
                  text |-> all_chunks[i].text]],
     text |-> JoinTexts(TextsOf(all_chunks), <<" ">>)]

\* except Exception as e: raise HTTPException(500, f"Inference failed: {e}")
InferenceFailed(all_chunks) ==
    [status |-> 500, format |-> "none", cues |-> <<>>, text |-> <<>>]

\* _run_inference_adaptive, steps 1 and 2: the filtered signal for the VAD.
AdaptiveFilter ==
    /\ step = "run_inference" /\ preprocess_mode = "adaptive"
    /\ \E bgm_level \in {"heavy", "light", "clean"} :
         \E vad_audio \in IF bgm_level = "heavy"
                            THEN apply_light_denoise(apply_highpass(ret.audio))
                            ELSE {apply_highpass(ret.audio)} :
           ret' = [ret EXCEPT !.vad_audio = vad_audio]
    /\ step' = "vad"
    /\ UNCHANGED <<lifecycle, arg>>

\* except Exception as e: return _run_inference_legacy(audio, language)
SeparationFallback_Raise(locals) ==
    [step |-> "done",
     ret |-> [locals EXCEPT !.raised = TRUE, !.response = InferenceFailed(<<>>)]]

SeparationFallback(locals) == [step |-> "legacy", ret |-> locals]

\* _run_inference_vocal_sep, step 1: the vocals, or the fall back to
\* _run_inference_legacy when vocal_separate raises.
PipeVocalSeparate ==
    /\ step = "run_inference" /\ preprocess_mode = "vocal_sep"
    /\ \/ /\ ret' = [ret EXCEPT !.vad_audio = vocal_separate(ret.audio)]
          /\ step' = "vad"
       \/ /\ ret' = SeparationFallback(ret).ret
          /\ step' = SeparationFallback(ret).step
    /\ UNCHANGED <<lifecycle, arg>>

\* vad_speech_timestamps(vad_audio, ...); if not speech_segments:
\* return [], "", 0.0
PipeVad ==
    /\ step = "vad"
    /\ \E ivs \in SegmenterLists(Len(ret.vad_audio)) :
         /\ ret' = [ret EXCEPT !.speech_segments = ivs]
         /\ step' = IF ivs = <<>> THEN "respond" ELSE "merge"
    /\ UNCHANGED <<lifecycle, arg>>

\* merged = merge_segments(speech_segments, ...) and the call of
\* run_segment_inference with the original audio (adaptive) or the vocals.
PipeMerge ==
    /\ step = "merge"
    /\ \E gap_samples \in 0..MaxGap, max_samples \in 1..MaxDur,
          min_samples \in 0..MaxMin :
         ret' = [ret EXCEPT
                   !.merged = merge_segments(ret.speech_segments, gap_samples,
                                             max_samples, min_samples),
                   !.rec_audio =
                      IF preprocess_mode = "adaptive"
                        THEN AdaptiveRecognizerAudio(ret.audio, ret.vad_audio)
                        ELSE ret.vad_audio,
                   !.i = 1]
    /\ step' = "segment"
    /\ UNCHANGED <<lifecycle, arg>>

\* extract_start = max(0, seg['start'] - pad_samples)
ExtractStart(seg) == Max(0, seg.start - pad_samples)
\* extract_end = min(len(audio), seg['end'] + pad_samples)
ExtractEnd(seg, audio) == Min(Len(audio), seg.end + pad_samples)

\* Clamp to segment boundaries:
\* abs_start = max(seg_start_s, abs_start); abs_end = min(seg_end_s, abs_end)
ClampStart_NoClamp(seg_start_s, abs_start) == abs_start

ClampStart(seg_start_s, abs_start) == Max(seg_start_s, abs_start)

ClampEnd_NoClamp(seg_end_s, abs_end) == abs_end

ClampEnd(seg_end_s, abs_end) == Min(seg_end_s, abs_end)

\* run_segment_inference, the loop over result.chunks of one segment: the
\* cues that are appended to all_chunks.
RECURSIVE SegmentCues(_, _, _)
SegmentCues(chunks, seg, extract_start) ==
    IF chunks = <<>> THEN <<>>
    ELSE LET c == Head(chunks)
             text == Strip(c.text)
             seg_start_s == Ticks(seg.start)
             seg_end_s == Ticks(seg.end)
             pad_offset_s == Ticks(seg.start - extract_start)
             absolute_offset_s == seg_start_s - pad_offset_s
             abs_start == ClampStart(seg_start_s, c.start_ts + absolute_offset_s)
             abs_end == ClampEnd(seg_end_s, c.end_ts + absolute_offset_s)
             rest == SegmentCues(Tail(chunks), seg, extract_start)
         IN  IF text = <<>> THEN rest
             ELSE IF abs_end <= abs_start THEN rest
             ELSE IF is_hallucination(text, abs_end - abs_start) THEN rest
             ELSE <<Cue(text, abs_start, abs_end)>> \o rest

\* run_segment_inference, one turn of the loop over the segments:
\* pipeline.generate(segment_audio, config) answers or raises.
PipeSegment ==
    /\ step = "segment" /\ ret.i <= Len(ret.merged)
    /\ LET seg == ret.merged[ret.i]
           extract_start == ExtractStart(seg)
           extract_end == ExtractEnd(seg, ret.rec_audio)
           segment_audio == SubSeq(ret.rec_audio, extract_start + 1, extract_end)
           calls == Append(ret.calls, segment_audio)
       IN  \/ \E chunks \in RecognizerChunkLists :
                /\ ret' = [ret EXCEPT
                             !.calls = calls,
                             !.all_chunks = @ \o SegmentCues(chunks, seg, extract_start),
                             !.i = @ + 1]
                /\ step' = "segment"
           \/ /\ ret' = [ret EXCEPT !.calls = calls, !.raised = TRUE,
                                    !.response = InferenceFailed(ret.all_chunks)]
              /\ step' = "done"
    /\ UNCHANGED <<lifecycle, arg>>

\* run_segment_inference after the loop:
\* full_text = " ".join(c['text'] for c in all_chunks); return
PipeSegmentsDone ==
    /\ step = "segment" /\ ret.i > Len(ret.merged)
    /\ ret' = [ret EXCEPT !.result =
                 [chunks |-> ret.all_chunks,
                  full_text |-> JoinTexts(TextsOf(ret.all_chunks), <<" ">>)]]
    /\ step' = "respond"
    /\ UNCHANGED <<lifecycle, arg>>

\* _run_inference_legacy: the VAD on the audio itself; no speech returns
\* [], "", 0.0, else everything outside the intervals is silenced.
PipeLegacyVad ==
    /\ \/ step = "legacy"
       \/ step = "run_inference" /\ preprocess_mode = "none"
    /\ \E ivs \in SegmenterLists(Len(ret.audio)) :
         IF ivs = <<>>
           THEN /\ ret' = ret
                /\ step' = "respond"
           ELSE /\ ret' = [ret EXCEPT !.speech_segments = ivs,
                                      !.vad_audio = Silenced(ret.audio, ivs)]
                /\ step' = "whole"
    /\ UNCHANGED <<lifecycle, arg>>

\* chunks = getattr(result, "chunks", [])
\* full_text = "".join(c.text for c in chunks).strip() if chunks else str(result)
WholeResult(result) ==
    [chunks |-> result.chunks,
     full_text |-> IF result.chunks # <<>>
                     THEN Strip(JoinTexts(TextsOf(result.chunks), <<>>))
                     ELSE result.str]

\* _run_inference_raw and _run_inference_legacy: one pipeline.generate on
\* the whole audio (raw) or on the silenced audio (legacy).
PipeWhole ==
    /\ \/ step = "whole"
       \/ step = "run_inference" /\ preprocess_mode = "raw"
    /\ LET input == IF step = "whole" THEN ret.vad_audio ELSE ret.audio
           calls == Append(ret.calls, input)
       IN  \/ \E result \in RecognizerResults :
                /\ ret' = [ret EXCEPT !.calls = calls,
                                      !.result = WholeResult(result)]
                /\ step' = "respond"
           \/ /\ ret' = [ret EXCEPT !.calls = calls, !.raised = TRUE,
                                    !.response = InferenceFailed(<<>>)]
              /\ step' = "done"
    /\ UNCHANGED <<lifecycle, arg>>

\* The cue of the VTT body written when chunks is empty:
\* 1 / 00:00:00.000 --> 99:59:59.999 / full_text
WholeFileCue(full_text) ==
    [idx |-> 1, start |-> <<0, 0, 0, 0>>, end |-> <<99, 59, 59, 999>>,
     text |-> full_text]

\* transcribe_openai and transcribe_legacy after run_inference returned.
Response(response_format, result) ==
    CASE response_format = "vtt" ->
           [status |-> 200, format |-> "vtt",
            cues |-> IF result.chunks # <<>> THEN chunks_to_vtt(result.chunks)
                     ELSE <<WholeFileCue(result.full_text)>>,
            text |-> <<>>]
      [] response_format = "verbose_json" ->
           [status |-> 200, format |-> "verbose_json",
            cues |-> [i \in DOMAIN result.chunks |->
                        [start |-> result.chunks[i].start_ts,
                         end |-> result.chunks[i].end_ts,
                         text |-> Strip(result.chunks[i].text)]],
            text |-> result.full_text]
      [] OTHER ->
           [status |-> 200, format |-> "json", cues |-> <<>>,
            text |-> result.full_text]

PipeRespond ==
    /\ step = "respond"
    /\ \E response_format \in Formats :
         ret' = [ret EXCEPT !.response = Response(response_format, ret.result)]
    /\ step' = "done"
    /\ UNCHANGED <<lifecycle, arg>>

NextPipe ==
    \/ AdaptiveFilter
    \/ PipeVocalSeparate
    \/ PipeVad
    \/ PipeMerge
    \/ PipeSegment
    \/ PipeSegmentsDone
    \/ PipeLegacyVad
    \/ PipeWhole
    \/ PipeRespond

SpecPipe == InitPipe /\ [][NextPipe]_vars

\* --------------------------------------------------- claims: audio path
\* C16: in the adaptive pipeline every recognizer call receives the samples
\* of the unmodified original audio at the padded interval, the filtered
\* signal goes to the segmenter only, and the filtering stage leaves the
\* original audio array as it was.
C16_RecognizerHearsOriginal ==
    preprocess_mode = "adaptive" =>
      /\ ret.audio = arg.audio
      /\ \A k \in DOMAIN ret.calls :
           ret.calls[k] =
             SubSeq(arg.audio, Max(0, ret.merged[k].start - pad_samples) + 1,
                    Min(Len(arg.audio), ret.merged[k].end + pad_samples))

\* C16 witness: the adaptive pipeline has filtered the audio for the
\* segmenter and has called the recognizer on two intervals, the second
\* padded at its start and clamped at the end of the audio.
C16_TwoCallsAfterFilter ==
    /\ preprocess_mode = "adaptive"
    /\ ret.vad_audio # arg.audio
    /\ Len(ret.calls) = 2
    /\ ret.merged[2].start > 0
    /\ ret.merged[2].end + pad_samples > Len(arg.audio)

\* C18: when the recognizer fails on a segment the request fails with the
\* inference error, and no cue or text recognized before the failure is in
\* the response.
C18_FailureHidesEarlierCues ==
    ret.raised =>
      /\ step = "done"
      /\ ret.response.status = 500
      /\ ret.response.cues = <<>>
      /\ ret.response.text = <<>>

\* C18 witness: the recognizer failed on a later segment after cues of an
\* earlier segment had been accumulated.
C18_FailedAfterCues ==
    /\ ret.raised
    /\ Len(ret.calls) >= 2
    /\ ret.all_chunks # <<>>

\* 00:00:00.000 notation back to tenths of a second
TsTicks(ts) == ts[1] * 36000 + ts[2] * 600 + ts[3] * 10 + ts[4] \div 100

\* The duration of a cue of a response, whose times are written by
\* format_ts in a VTT body and are numbers in a JSON body.
ExposedDuration(format, cue) ==
    IF format = "vtt" THEN TsTicks(cue.end) - TsTicks(cue.start)
    ELSE cue.end - cue.start

\* The rules of the filter that look at one cue: text, window, phrase,
\* pattern and duration.
PassesFilter(text, duration) ==
    /\ Strip(text) # <<>>
    /\ duration < WINDOW
    /\ ~is_hallucination(Strip(text), duration)

\* C19: every cue of a successful response has passed the hallucination
\* filter, in every preprocessing mode and for every response format.
C19_ExposedCuesFiltered ==
    (step = "done" /\ ret.response.status = 200) =>
      \A k \in DOMAIN ret.response.cues :
        PassesFilter(ret.response.cues[k].text,
                     ExposedDuration(ret.response.format, ret.response.cues[k]))

RunsOf(chunks, t) ==
    Cardinality({i \in DOMAIN chunks :
                   /\ Strip(chunks[i].text) = t
                   /\ (i = 1 \/ Strip(chunks[i - 1].text) # t)})

KeptOf(kept, t) == Cardinality({i \in DOMAIN kept : kept[i].text = t})

C22_NoWindowLongCueExposed ==
    (step = "done" /\ ret.response.status = 200) =>
      \A k \in DOMAIN ret.response.cues :
        \/ /\ ret.response.format = "vtt"
           /\ ret.response.cues[k] = WholeFileCue(ret.result.full_text)
        \/ ExposedDuration(ret.response.format, ret.response.cues[k]) < WINDOW

\* ---------------------------------------------------------------------
\* C23 A cue whose stripped text equals an entry of the phrase list,
\* letter case ignored, is rejected whatever its duration and its position
\* in the list of cues: none of the cues chunks_to_vtt writes has such a
\* text, two consecutive cues with such a text are both rejected.
C23_NoListedPhraseKept ==
    step = "filtered" =>
        \A k \in DOMAIN ret.first :
            Lower(ret.first[k].text) \notin HALLUCINATION_EXACT

\* A cue that is kept, then the listed phrase twice and the phrase in
\* capitals with a leading space: only the first cue is written.
C23_ConsecutivePhrasesRejected ==
    /\ step = "filtered"
    /\ arg = <<Cue(Hello, 0, 20), Cue(ThanksForViewing, 0, 20),
               Cue(ThanksForViewing, 0, 20), Cue(ThanksForWatching, 0, 20)>>
    /\ ret.first = <<Cue(Hello, 0, 20)>>

\* ---------------------------------------------------------------------
\* C24 In segmented mode every cue appended to all_chunks has end > start
\* and lies inside the bounds of a segment of the list it was recognized
\* from, so it is no longer than the longest segment the merger makes.
C24_CueInsideItsSegment ==
    step \in {"segment", "respond"} =>
        \A k \in DOMAIN ret.all_chunks :
            LET c == ret.all_chunks[k]
            IN  /\ c.end_ts > c.start_ts
                /\ c.end_ts - c.start_ts <= Ticks(MaxDur)
                /\ \E j \in DOMAIN ret.merged :
                      /\ j < ret.i
                      /\ Ticks(ret.merged[j].start) <= c.start_ts
                      /\ c.end_ts <= Ticks(ret.merged[j].end)

\* The recognizer answered a cue of 30 s for a segment of less than a
\* second, and the cue was cut to the segment and appended.
C24_LongCueClamped ==
    /\ step = "segment" /\ ret.i = 2
    /\ ret.merged[1].start > 0
    /\ ret.all_chunks =
         <<Cue(Hello, Ticks(ret.merged[1].start), Ticks(ret.merged[1].end))>>

\* ---------------------------------------------------------------------
\* Cue c lies inside segment seg.
CueInside(c, seg) ==
    Ticks(seg.start) <= c.start_ts /\ c.end_ts <= Ticks(seg.end)

\* C25 The cues of segmented inference are in chronological order: of two
\* consecutive cues the later one starts no earlier than the earlier one,
\* and cues recognized from different segments do not overlap in time.
C25_CuesChronological ==
    step \in {"segment", "respond"} =>
        /\ \A k \in 1..(Len(ret.all_chunks) - 1) :
              ret.all_chunks[k].start_ts <= ret.all_chunks[k + 1].start_ts
        /\ \A k, l \in DOMAIN ret.all_chunks :
              k < l =>
                \/ \E j \in DOMAIN ret.merged :
                      /\ CueInside(ret.all_chunks[k], ret.merged[j])
                      /\ CueInside(ret.all_chunks[l], ret.merged[j])
                \/ ret.all_chunks[k].end_ts <= ret.all_chunks[l].start_ts

\* Two segments that touch, both extracted with padding, and a cue of each
\* in the result.
C25_CuesOfTwoSegments ==
    /\ step = "respond"
    /\ Len(ret.merged) = 2 /\ ret.merged[1].end = ret.merged[2].start
    /\ Len(ret.all_chunks) = 2
    /\ CueInside(ret.all_chunks[1], ret.merged[1])
    /\ CueInside(ret.all_chunks[2], ret.merged[2])

\* ---------------------------------------------------------------------
\* The long-form chunks of a signal: windows of WindowSamples samples that
\* start every WindowSamples - OverlapSamples samples from pos on, the last
\* one clipped to the end of the signal.
WindowSamples == 4
OverlapSamples == 1

RECURSIVE LongFormChunks(_, _)
LongFormChunks(audio, pos) ==
    IF pos + WindowSamples >= Len(audio)
      THEN <<SubSeq(audio, pos + 1, Len(audio))>>
      ELSE <<SubSeq(audio, pos + 1, pos + WindowSamples)>>
           \o LongFormChunks(audio, pos + WindowSamples - OverlapSamples)

\* C26 Long-form chunking: for audio longer than the context window the
\* whole-audio path gives the recognizer consecutive chunks that start
\* every window minus overlap, each a window long but the last, which ends
\* at the end of the signal.
C26_LongAudioChunked ==
    ( /\ preprocess_mode = "raw"
      /\ step \in {"respond", "done"}
      /\ Len(ret.audio) > WindowSamples )
    => ret.calls = LongFormChunks(ret.audio, 0)

\* ---------------------------------------------------------------------
\* C27 Overlap deduplication: a cue that starts before the end of the cue
\* accepted before it is dropped, so the result of the whole-audio path
\* holds one instance of a cue recognized twice around a chunk boundary and
\* no cue that starts before the end of the one before it.
C27_NoCueStartsBeforePreviousEnd ==
    (preprocess_mode = "raw" /\ step = "respond") =>
        \A k \in 1..(Len(ret.result.chunks) - 1) :
            ret.result.chunks[k + 1].start_ts >= ret.result.chunks[k].end_ts

\* ---------------------------------------------------------------------
\* The request runs in vocal_sep mode and vocal_separate raised: the signal
\* of the segmenter is not the vocals.
SeparationFailed ==
    /\ preprocess_mode = "vocal_sep"
    /\ step # "run_inference"
    /\ ret.vad_audio # vocal_separate(ret.audio)

\* C28 A failure of vocal separation never fails the request: the audio
\* itself is processed un-separated (silenced outside its own speech
\* intervals, one recognizer call), and the request fails only when that
\* recognizer call failed.
C28_SeparationFailureFallsBack ==
    SeparationFailed =>
        /\ \A k \in DOMAIN ret.calls :
              ret.calls[k] = Silenced(ret.audio, ret.speech_segments)
        /\ Len(ret.calls) <= 1
        /\ (step = "done" /\ ret.response.status = 500) =>
              (ret.raised /\ Len(ret.calls) = 1)
        /\ (step = "done" /\ ret.response.status = 200) =>
              ret.response = Response(ret.response.format, ret.result)

\* Separation failed and the request was answered with the cues of the
\* audio itself.
C28_AnsweredAfterSeparationFailure ==
    /\ SeparationFailed
    /\ step = "done" /\ ret.response.status = 200
    /\ ret.calls = <<Silenced(ret.audio, ret.speech_segments)>>
    /\ ret.response.cues # <<>>

\* ---------------------------------------------------------------------
\* Frame k of the call starts at sample FrameStart(k); it is silent when its
\* probability is below the threshold; a run of n silent frames reaches
\* min_silence_duration when n frames are at least min_silence_samples.
FrameStart(k) == (k - 1) * chunk_size

SilentFrame(k) == arg.probs[k] < arg.threshold

LongSilenceAt(k) ==
    \E n \in 1..FrameCount(arg.len) :
        /\ n * chunk_size >= arg.min_silence_samples
        /\ k + n - 1 <= FrameCount(arg.len)
        /\ \A j \in k..(k + n - 1) : SilentFrame(j)

\* The frames of the first and of the last speech frame of the call.
SpeechFrames == {k \in 1..FrameCount(arg.len) : ~SilentFrame(k)}

FirstSpeech == CHOOSE k \in SpeechFrames : \A j \in SpeechFrames : k <= j

LastSpeech == CHOOSE k \in SpeechFrames : \A j \in SpeechFrames : j <= k

\* C29 Segmenter hysteresis: an interval closed inside the loop ends at the
\* start of the first frame of a silent run that reaches
\* min_silence_duration, right after a speech frame; no returned interval
\* holds the start of such a run, so a shorter silent run does not split
\* it; and a speech region without such a run yields at most one interval,
\* exactly one when no minimum speech length is asked, from its first
\* speech frame to beyond its last.
C29_Hysteresis ==
    step = "vad_done" =>
      /\ \A i \in DOMAIN ret :
            \A k \in 1..FrameCount(arg.len) :
              (ret[i].start <= FrameStart(k) /\ FrameStart(k) < ret[i].end)
                => ~LongSilenceAt(k)
      /\ \A i \in 1..Len(VadLoop(VadStart, 1, arg).segments) :
            \E k \in 2..FrameCount(arg.len) :
              /\ ret[i].end = FrameStart(k)
              /\ ~SilentFrame(k - 1)
              /\ LongSilenceAt(k)
      /\ ( /\ SpeechFrames # {}
            /\ \A k \in FirstSpeech..LastSpeech : ~LongSilenceAt(k) )
          => /\ Len(ret) <= 1
             /\ arg.min_speech_samples = 0 => Len(ret) = 1
             /\ Len(ret) = 1 =>
                   /\ ret[1].start = FrameStart(FirstSpeech)
                   /\ ret[1].end >= FrameStart(LastSpeech) + chunk_size

\* Speech, one silent frame, speech, then two silent frames with a
\* min_silence_duration of two frames: one interval, which ends where the
\* two silent frames begin.
C29_ShortSilenceBridged ==
    /\ step = "vad_done"
    /\ arg.len = 10 /\ arg.probs = <<5, 4, 5, 4, 4>>
    /\ arg.min_silence_samples = 4 /\ arg.min_speech_samples = 0
    /\ ret = <<Seg(0, 6)>>

\* ---------------------------------------------------------------------
\* The signal ends while the segmenter is in SPEECH: there is a speech
\* frame and the silent frames after the last one do not reach
\* min_silence_duration.
EndsInSpeech ==
    /\ SpeechFrames # {}
    /\ ~(LastSpeech < FrameCount(arg.len) /\ LongSilenceAt(LastSpeech + 1))

\* The silent frames after the last speech frame.
TrailingSilentFrames == FrameCount(arg.len) - LastSpeech

\* C30 If the signal ends while the segmenter is in SPEECH, the open
\* interval is closed with its end equal to the length of the signal, also
\* when the last frames were silent but fewer than min_silence_duration.
C30_OpenIntervalEndsAtSignalEnd ==
    (step = "vad_done" /\ EndsInSpeech) =>
        /\ arg.min_speech_samples = 0 => ret # <<>>
        /\ \A i \in DOMAIN ret :
              ret[i].end > FrameStart(LastSpeech) => ret[i].end = arg.len

\* C30 as the code has it: the open interval is closed with no trailing
\* silence asked for, and its end is the length of the signal less the
\* silent frames counted since the last speech frame.
C30_OpenIntervalEndsBeforeTrailingSilence ==
    (step = "vad_done" /\ EndsInSpeech) =>
        /\ arg.min_speech_samples = 0 => ret # <<>>
        /\ \A i \in DOMAIN ret :
              ret[i].end > FrameStart(LastSpeech) =>
                ret[i].end = arg.len - TrailingSilentFrames * chunk_size

\* Two speech frames and one silent frame at the end of a signal of three
\* frames, min_silence_duration two frames: the interval ends where the
\* silent frame begins.
C30_TrailingSilenceCutOff ==
    /\ step = "vad_done"
    /\ arg.len = 6 /\ arg.probs = <<5, 5, 4>>
    /\ arg.min_silence_samples = 4 /\ arg.min_speech_samples = 0
    /\ EndsInSpeech
    /\ ret = <<Seg(0, 4)>>

\* ---------------------------------------------------------------------
\* C31 The segmenter never returns an interval shorter than
\* min_speech_duration, whether the interval was closed by silence or at
\* the end of the signal, and a signal shorter than one frame yields no
\* interval.
C31_NoShortInterval ==
    step = "vad_done" =>
        /\ \A i \in DOMAIN ret :
              ret[i].end - ret[i].start >= arg.min_speech_samples
        /\ arg.len < chunk_size => ret = <<>>

\* Two speech frames closed by a silent frame and kept, then one speech
\* frame left open at the end of the signal and rejected for its length.
C31_ShortCandidateRejected ==
    /\ step = "vad_done"
    /\ arg.len = 8 /\ arg.probs = <<5, 5, 4, 5>>
    /\ arg.min_silence_samples = 2 /\ arg.min_speech_samples = 3
    /\ ret = <<Seg(0, 4)>>

\* ---------------------------------------------------------------------
\* The pieces an interval longer than max_samples is to be replaced by:
\* whole pieces of max_samples from its start on, then the remainder when
\* there is one of at least min_samples.
WholePieces(iv, max_samples) == (iv.end - iv.start) \div max_samples

Remainder(iv, max_samples) == (iv.end - iv.start) % max_samples

ExpectedPieces(iv, max_samples, min_samples) ==
    [k \in 1..WholePieces(iv, max_samples) |->
        Seg(iv.start + (k - 1) * max_samples, iv.start + k * max_samples)]
    \o (IF /\ Remainder(iv, max_samples) > 0
           /\ Remainder(iv, max_samples) >= min_samples
          THEN <<Seg(iv.end - Remainder(iv, max_samples), iv.end)>>
          ELSE <<>>)

\* The intervals of ivs that lie inside iv, in the order of ivs.
PiecesInside(ivs, iv) ==
    LET Inside(x) == iv.start <= x.start /\ x.end <= iv.end
    IN  SelectSeq(ivs, Inside)

\* C32 An interval longer than max_duration is replaced by adjacent
\* pieces from its start on, each of exactly max_duration but the
\* remainder, which is kept only if it is at least min_duration; the pieces
\* come in order and nothing else of the interval is lost.  The callers
\* pass a min_duration below max_duration.
C32_LongIntervalSliced ==
    (step = "merged" /\ arg.min_samples <= arg.max_samples) =>
        \A i \in DOMAIN arg.segments :
            arg.segments[i].end - arg.segments[i].start > arg.max_samples
              => PiecesInside(ret, arg.segments[i])
                   = ExpectedPieces(arg.segments[i], arg.max_samples,
                                    arg.min_samples)

\* An interval of five samples with a maximum of two and a minimum of one:
\* two whole pieces and the remainder of one sample.
C32_TwoPiecesAndRemainder ==
    /\ step = "merged"
    /\ arg.segments = <<Seg(0, 5)>>
    /\ arg.max_samples = 2 /\ arg.min_samples = 1
    /\ ret = <<Seg(0, 2), Seg(2, 4), Seg(4, 5)>>

\* =====================================================================
\* The idle timer over any number of inferences, one after the other (the
\* handlers are serialized on the event loop); the callbacks of the timers
\* run on their own threads, between and during the inferences.  The
\* server starts from either model: the startup load of MODEL_ID, or a
\* swap to the other model that has succeeded.

InitIdle ==
    /\ \E m \in Models :
         /\ pipeline = Handle(m, 0)
         /\ model_id_str = m
         /\ last_load = [mid |-> m, swap |-> m # DEFAULT_MODEL_ID, ok |-> TRUE]
    /\ loading_model = FALSE
    /\ last_inference_time = 0
    /\ idle_timer = 0
    /\ preprocess_mode = "adaptive"
    /\ now = 0
    /\ timer = [t \in Timers |-> TimerInit]
    /\ loop = 0
    /\ req = [r \in Reqs |-> ReqInit]
    /\ last_activity = 0
    /\ arg = <<>> /\ ret = <<>>
    /\ step = "idle"

\* A transcription passes ensure_model_loaded: when the handle is absent
\* load_model_by_id(mid) builds a new one (by 1: a lazy load built it).
InferenceBegins ==
    /\ step = "idle"
    /\ pipeline' = IF pipeline = NoHandle THEN Handle(ensure_mid, 1)
                   ELSE pipeline
    /\ step' = "inferring"
    /\ UNCHANGED <<model_id_str, loading_model, idle, preprocess_mode, arg,
                   ret, now, loop, req, hist>>

\* Its recognizer work ends: _schedule_idle_unload() and the return.
InferenceCompletes ==
    /\ step = "inferring"
    /\ schedule_idle_unload
    /\ step' = "idle"
    /\ last_activity' = now
    /\ UNCHANGED <<globals, preprocess_mode, arg, ret, now, loop, req,
                   last_load>>

\* POST /unload between two inferences: unload_model_endpoint answers
\* "already_unloaded" without a handle and calls unload_model() otherwise.
UnloadRequest ==
    /\ step = "idle"
    /\ pipeline # NoHandle
    /\ pipeline' = unload_model
    /\ UNCHANGED <<model_id_str, loading_model, idle, fixed, now, loop, req,
                   hist>>

NextIdle ==
    \/ InferenceBegins
    \/ InferenceCompletes
    \/ UnloadRequest
    \/ \E t \in Timers : TimerFire(t)
    \/ \E t \in Timers : CheckElapsed(t)
    \/ \E t \in Timers : TimerUnload(t)
    \/ \E t \in Timers : TimerClear(t)
    \/ Tick

SpecIdle == InitIdle /\ [][NextIdle]_vars

\* The timers that were started and whose interval has not run out or
\* whose callback has not started.
PendingTimers == {t \in Timers : timer[t].st = "waiting"}

\* C33 At most one idle timer is pending at any time, however the calls of
\* _schedule_idle_unload interleave with a running _check_and_unload:
\* arming a timer cancels the one armed before it.
C33_AtMostOnePendingTimer == Cardinality(PendingTimers) <= 1

\* ---------------------------------------------------------------------
\* C34 The idle timer never unloads the model earlier than
\* IDLE_TIMEOUT - 1 seconds after the last _schedule_idle_unload call:
\* whenever the callback clears the handle that much time has passed, also
\* when an inference ended between the callback's check and its unload.
C34_NoEarlyIdleUnload ==
    [][(\E t \in Timers : /\ timer[t].st = "unload" /\ timer'[t].st = "clear"
                          /\ pipeline # NoHandle /\ pipeline' = NoHandle)
         => now - last_inference_time >= IDLE_TIMEOUT - 1]_vars

\* ---------------------------------------------------------------------
\* model_info: "loading" if loading_model else ("loaded" if pipeline else
\* "unloaded")
ModelStatus ==
    IF loading_model THEN "loading"
    ELSE IF pipeline # NoHandle THEN "loaded" ELSE "unloaded"

\* The executions of load_model_by_id that have begun their work (the
\* first assignment, after the imports) and have not returned.
LoadsRunning == {q \in Reqs : req[q].pc \in LoadPcs \ {"load_begin"}}

\* C35 The loading flag agrees with the loads in flight: the status is
\* "loading" in exactly the states in which an execution of
\* load_model_by_id is running; two loads never overlap, so none clears
\* the flag of another.
C35_FlagAgreesWithLoads ==
    /\ (ModelStatus = "loading") = (LoadsRunning # {})
    /\ Cardinality({q \in Reqs : req[q].pc \in LoadPcs}) <= 1

\* A load is constructing its pipeline while another request has come in
\* and waits for the event loop.
C35_LoadingWhileAnotherWaits ==
    \E r, q \in Reqs :
        /\ r # q
        /\ req[r].pc = "load_construct"
        /\ req[q].pc = "queued" /\ req[q].during_load
        /\ ModelStatus = "loading"

\* ---------------------------------------------------------------------
\* C36 Unloading keeps the model identity: a step that releases the
\* handle, by POST /unload or by the idle callback, leaves model_id_str
\* and loading_model as they were and releases the model model_id_str
\* names; the idle callback's unload_model changes nothing when the handle
\* is already absent; the inference that follows a release loads the model
\* that was loaded before it and leaves model_id_str as it was.
C36_UnloadKeepsIdentity ==
    [][/\ (pipeline # NoHandle /\ pipeline' = NoHandle) =>
            /\ model_id_str' = model_id_str
            /\ loading_model' = loading_model
            /\ pipeline.model = model_id_str'
       /\ \A t \in Timers :
            (timer[t].st = "unload" /\ timer'[t].st = "clear"
             /\ pipeline = NoHandle) => globals' = globals
       /\ (pipeline = NoHandle /\ pipeline' # NoHandle) =>
            /\ pipeline'.model = last_load.mid
            /\ model_id_str' = model_id_str]_vars

\* The server was swapped to m2 and the handle released; an inference has
\* loaded m2 again, not the default model.
C36_ReloadsReleasedModel ==
    /\ step = "inferring"
    /\ pipeline = Handle("m2", 1)
    /\ model_id_str = "m2"

====
